---- MODULE Spec2Model ----
(***************************************************************************)
(* The email-forwarding HTTP handler of outlookfunctionaddon and its       *)
(* message resolver (searchMessageByMetadata, validateMessageId,           *)
(* convertExchangeId), in the revisions kept in the repository:            *)
(*   "index"   src/forwardEmail/index.js, lines 1-305                      *)
(*   "part000" src/unnamed/part_000                                        *)
(*   "part004" src/unnamed/part_004, lines 177-454                         *)
(*   "part001" src/unnamed/part_001, which has no resolver: it forwards    *)
(*             the message the caller's messageId names                    *)
(* Strings are sequences of one-character strings, so that trim,           *)
(* toLowerCase, split, includes and replace are computed as JavaScript     *)
(* computes them.                                                          *)
(***************************************************************************)
EXTENDS Integers, Sequences, FiniteSets, TLC

VARIABLES
    rev,            \* the revision of the handler that serves the request
    req,            \* the inbound request: authorization header and body fields
    pc,             \* the handler's position
    messageId,      \* the handler's messageId / messageIdToProcess variable
    search,         \* what searchMessageByMetadata did in this request
    calls,          \* the outbound calls to the mail service, in order
    hasAttachments, \* message.hasAttachments of the fetched original
    attachments,    \* the handler's attachments array
    attIdx,         \* the position of the attachment loop
    draftId,        \* draftMessage.id
    res,            \* context.res
    sIn,            \* searchMessageByMetadata alone: its arguments and the service's answer
    sOut            \* searchMessageByMetadata alone: its outcome

vars == <<rev, req, pc, messageId, search, calls, hasAttachments, attachments,
          attIdx, draftId, res, sIn, sOut>>

----------------------------------------------------------------------------
(* Bounds of the model *)

\* the longest page of candidates the query service returns (the code asks for 5)
MaxPage == 3

\* the longest page of candidates under FairSpec, where what matters is that
\* the handler returns and not which candidate it picks
MaxFairPage == 1

----------------------------------------------------------------------------
(* JavaScript values and string functions *)

\* undefined / null: a value no string of characters equals
Undefined == <<"undefined">>

\* JavaScript truthiness of an optional string: neither undefined/null nor ''
Truthy(s) == s # Undefined /\ s # <<>>

LowerMap == ("A" :> "a") @@ ("B" :> "b") @@ ("C" :> "c") @@ ("I" :> "i") @@
            ("N" :> "n") @@ ("V" :> "v") @@ ("X" :> "x")

\* String.prototype.toLowerCase
toLowerCase(s) ==
    [i \in 1..Len(s) |-> IF s[i] \in DOMAIN LowerMap THEN LowerMap[s[i]] ELSE s[i]]

RECURSIVE trimStart(_)
trimStart(s) ==
    IF s # <<>> /\ Head(s) = " " THEN trimStart(Tail(s)) ELSE s

RECURSIVE trimEnd(_)
trimEnd(s) ==
    IF s # <<>> /\ s[Len(s)] = " " THEN trimEnd(SubSeq(s, 1, Len(s) - 1)) ELSE s

\* String.prototype.trim
trim(s) == trimEnd(trimStart(s))

\* String.prototype.includes, for a one-character needle
includes(s, c) == \E i \in 1..Len(s) : s[i] = c

\* String.prototype.startsWith
startsWith(s, p) == Len(s) >= Len(p) /\ SubSeq(s, 1, Len(p)) = p

\* String.prototype.split, for a one-character separator: the pieces between
\* the separators, empty pieces included
RECURSIVE splitFrom(_, _, _)
splitFrom(s, c, cur) ==
    IF s = <<>> THEN <<cur>>
    ELSE IF Head(s) = c THEN <<cur>> \o splitFrom(Tail(s), c, <<>>)
    ELSE splitFrom(Tail(s), c, Append(cur, Head(s)))

split(s, c) == splitFrom(s, c, <<>>)

\* Array.prototype.filter(r => r) on an array of strings: drops the empty ones
RECURSIVE filterNonEmpty(_)
filterNonEmpty(xs) ==
    IF xs = <<>> THEN <<>>
    ELSE IF Head(xs) = <<>> THEN filterNonEmpty(Tail(xs))
    ELSE <<Head(xs)>> \o filterNonEmpty(Tail(xs))

\* str.replace(/'/g, "''")
RECURSIVE doubleQuotes(_)
doubleQuotes(s) ==
    IF s = <<>> THEN <<>>
    ELSE IF Head(s) = "'" THEN <<"'", "'">> \o doubleQuotes(Tail(s))
    ELSE <<Head(s)>> \o doubleQuotes(Tail(s))

\* encodeOData of index.js and part_000
encodeOData(str) == IF Truthy(str) THEN doubleQuotes(str) ELSE <<>>

\* encodeOData of part_004, which also trims
encodeODataTrim(str) == IF Truthy(str) THEN trim(doubleQuotes(str)) ELSE <<>>

\* recipients ? recipients.split(';').map(r => r.trim().toLowerCase()).filter(r => r) : []
fullRecipientListOf(recipients) ==
    IF Truthy(recipients)
    THEN LET parts == split(recipients, ";")
         IN  filterNonEmpty([i \in 1..Len(parts) |-> toLowerCase(trim(parts[i]))])
    ELSE <<>>

----------------------------------------------------------------------------
(* The revisions *)

RevIndex == "index"
RevPart000 == "part000"
RevPart004 == "part004"
RevPart001 == "part001"
Revisions == {RevIndex, RevPart000, RevPart004, RevPart001}

\* the revisions that define searchMessageByMetadata
SearchingRevisions == {RevIndex, RevPart000, RevPart004}

----------------------------------------------------------------------------
(* searchMessageByMetadata *)

\* .top(5): the page size the query asks for
top == 5

\* message.subject ? message.subject.trim().toLowerCase() : ""
messageSubjectNormalized(message) ==
    IF Truthy(message.subject) THEN toLowerCase(trim(message.subject)) ELSE <<>>

\* The subject the client-side check compares with, and whether there is a check:
\* part_000 compares with subjectFromRequest.trim().toLowerCase(), part_004 with
\* encodedSubject.toLowerCase(); index.js has no client-side subject check.
subjectChecked(rv, subject) ==
    CASE rv = RevIndex   -> FALSE
      [] rv = RevPart000 -> Truthy(subject)
      [] rv = RevPart004 -> encodeODataTrim(subject) # <<>>

requestSubjectNormalized(rv, subject) ==
    IF rv = RevPart004 THEN toLowerCase(encodeODataTrim(subject))
    ELSE toLowerCase(trim(subject))

subjectMatch(rv, subject, message) ==
    subjectChecked(rv, subject) =>
        messageSubjectNormalized(message) = requestSubjectNormalized(rv, subject)

\* The set without toLowerCase: the mutant of messageRecipientsSet
messageRecipientsSetMut(rv, message) ==
    LET to == message.toRecipients
        all == {IF Truthy(to[i]) THEN to[i] ELSE <<>> : i \in 1..Len(to)}
    IN  IF rv = RevIndex THEN all ELSE all \ {<<>>}

\* new Set(message.toRecipients.map(r => address ? address.toLowerCase() : ''/null))
\* index.js keeps '' for a recipient without address, part_000 and part_004
\* drop it (.filter(Boolean)); no expected recipient is '' in either case.
messageRecipientsSet(rv, message) ==
    LET to == message.toRecipients
        all == {IF Truthy(to[i]) THEN toLowerCase(to[i]) ELSE <<>> : i \in 1..Len(to)}
    IN  IF rv = RevIndex THEN all ELSE all \ {<<>>}

\* for (const expectedRecipient of fullRecipientList) if (!set.has(expectedRecipient)) ...
allRecipientsFound(rv, full, message) ==
    \A i \in 1..Len(full) : full[i] \in messageRecipientsSet(rv, message)

\* Whether the revision runs the recipient check at all: index.js only for
\* more than one expected recipient, the others for one or more.
recipientsChecked(rv, full) ==
    IF rv = RevIndex THEN Len(full) > 1 ELSE Len(full) > 0

recipientsMatch(rv, full, message) ==
    recipientsChecked(rv, full) =>
        /\ message.toRecipients # <<>>
        /\ allRecipientsFound(rv, full, message)

\* The loop skips a candidate whose receivedDateTime is not the requested
\* string: the mutant of timestampAccepted
timestampAcceptedStrict(rv, receivedTime, message) ==
    rv = RevPart000 => message.receivedDateTime = receivedTime

\* part_000: `if (message.receivedDateTime !== receivedTimeFromRequest)` logs
\* a warning and has no `continue`; the other revisions do not compare
timestampAccepted(rv, receivedTime, message) == TRUE

\* The body of the loop over response.value: whether the candidate is returned
candidatePasses(rv, subject, recipients, receivedTime, message) ==
    /\ timestampAccepted(rv, receivedTime, message)
    /\ subjectMatch(rv, subject, message)
    /\ recipientsMatch(rv, fullRecipientListOf(recipients), message)

\* for (const message of response.value) { ... return message.id; }: the
\* position of the first candidate that is returned, 0 when the loop ends
RECURSIVE firstPassingFrom(_, _, _, _, _, _)
firstPassingFrom(rv, subject, recipients, receivedTime, page, i) ==
    IF i > Len(page) THEN 0
    ELSE IF candidatePasses(rv, subject, recipients, receivedTime, page[i]) THEN i
    ELSE firstPassingFrom(rv, subject, recipients, receivedTime, page, i + 1)

firstPassing(rv, subject, recipients, receivedTime, page) ==
    firstPassingFrom(rv, subject, recipients, receivedTime, page, 1)

Term(f, v) == [field |-> f, value |-> v]

\* The terms of the filter, joined with ' and ' by the code
subjectTerms(rv, subject) ==
    CASE rv = RevIndex ->
            IF Truthy(subject) THEN <<Term("subject", encodeOData(subject))>> ELSE <<>>
      [] rv = RevPart000 -> <<>>
      [] rv = RevPart004 ->
            IF encodeODataTrim(subject) # <<>>
            THEN <<Term("subject", encodeODataTrim(subject))>> ELSE <<>>

receivedTimeTerms(rv, receivedTime) ==
    CASE rv = RevIndex ->
            IF Truthy(receivedTime)
            THEN <<Term("receivedDateTime", encodeOData(receivedTime))>> ELSE <<>>
      [] rv = RevPart000 -> <<Term("receivedDateTime", encodeOData(receivedTime))>>
      [] rv = RevPart004 -> <<>>

recipientTerms(rv, recipients) ==
    LET full == fullRecipientListOf(recipients)
    IN  CASE rv = RevIndex ->
                IF Len(full) > 0 THEN <<Term("toRecipients", encodeOData(full[1]))>> ELSE <<>>
          [] rv = RevPart000 -> <<>>
          [] rv = RevPart004 ->
                IF Len(full) > 0 /\ encodeODataTrim(full[1]) # <<>>
                THEN <<Term("toRecipients", encodeODataTrim(full[1]))>> ELSE <<>>

initialFilterParts(rv, subject, recipients, receivedTime) ==
    subjectTerms(rv, subject) \o receivedTimeTerms(rv, receivedTime)
        \o recipientTerms(rv, recipients)

\* part_000: !receivedTime || typeof receivedTime !== 'string' || receivedTime.trim() === ''
receivedTimeMissing(receivedTime) ==
    ~Truthy(receivedTime) \/ trim(receivedTime) = <<>>

\* The query is issued whatever the filter holds: the mutant of beforeQuery
beforeQueryAlways(rv, subject, recipients, receivedTime) == "query"

\* What the function does before the query: "query" (the query is issued),
\* "null" (returns null without a query), "throwTime" / "throwCriteria"
\* (throws without a query)
beforeQuery(rv, subject, recipients, receivedTime) ==
    CASE rv = RevIndex ->
            IF initialFilterParts(rv, subject, recipients, receivedTime) = <<>>
            THEN "null" ELSE "query"
      [] rv = RevPart000 ->
            IF receivedTimeMissing(receivedTime) THEN "throwTime" ELSE "query"
      [] rv = RevPart004 ->
            IF initialFilterParts(rv, subject, recipients, receivedTime) = <<>>
            THEN "throwCriteria" ELSE "query"

NoFilter == <<>>

SearchOutcome(kind, id, queried, filter, examined) ==
    [kind |-> kind, id |-> id, queried |-> queried, filter |-> filter,
     examined |-> examined]

\* searchMessageByMetadata(client, subject, recipients, receivedTime, context), with
\* resp the service's answer to the one query: [ok |-> FALSE] when the call
\* throws, [ok |-> TRUE, value |-> page] otherwise.
\* kind: "id" (returns id), "null" (returns null), "throwQuery" (the query
\* threw and the error is rethrown), "throwTime", "throwCriteria".
searchMessageByMetadata(rv, subject, recipients, receivedTime, resp) ==
    LET pre    == beforeQuery(rv, subject, recipients, receivedTime)
        filter == initialFilterParts(rv, subject, recipients, receivedTime)
    IN  IF pre # "query" THEN SearchOutcome(pre, Undefined, FALSE, NoFilter, 0)
        ELSE IF ~resp.ok THEN SearchOutcome("throwQuery", Undefined, TRUE, filter, 0)
        ELSE LET k == firstPassing(rv, subject, recipients, receivedTime, resp.value)
             IN  IF k = 0
                 THEN SearchOutcome("null", Undefined, TRUE, filter, Len(resp.value))
                 ELSE SearchOutcome("id", resp.value[k].id, TRUE, filter, k)


----------------------------------------------------------------------------
(* The values the requests and the mail service are drawn from *)

\* Addresses, as the mailbox spells them and as requests spell them
AddrA == <<"a", "@", "x">>
AddrB == <<"b", "@", "x">>
AddrC == <<"c", "@", "x">>
AddrAUpper == <<"A", "@", "X">>
AddrBUpper == <<"B", "@", "X">>

\* "Inv", " iNV ", "x", "i'v"
SubjInv == <<"I", "n", "v">>
SubjInvSpaced == <<" ", "i", "N", "V", " ">>
SubjOther == <<"x">>
SubjQuote == <<"i", "'", "v">>

\* "a@x;b@x", " B@X ; a@x ", "a@x", ";"
RecipAB == AddrA \o <<";">> \o AddrB
RecipBASpaced == <<" ">> \o AddrBUpper \o <<" ", ";", " ">> \o AddrA \o <<" ">>
RecipA == AddrA
RecipOnlySeparator == <<";">>

Time1 == <<"t", "1">>
Time2 == <<"t", "2">>

Message(id, subject, to, received) ==
    [id |-> id, subject |-> subject, toRecipients |-> to, receivedDateTime |-> received]

\* The messages the query service chooses its candidates from. A recipient
\* without emailAddress.address is Undefined, a message without subject has
\* subject Undefined, a message without toRecipients has none.
Mailbox ==
    { Message(<<"m", "1">>, SubjOther, <<AddrA, AddrB>>, Time1),
      Message(<<"m", "2">>, SubjInvSpaced, <<AddrBUpper, AddrAUpper, AddrC>>, Time1),
      Message(<<"m", "3">>, SubjInv, <<AddrA>>, Time2),
      Message(<<"m", "4">>, SubjInv, <<>>, Time1),
      Message(<<"e", "/", "5">>, SubjInv, <<AddrB, AddrA>>, Time2),
      Message(<<"m", "6">>, Undefined, <<Undefined, AddrA>>, Time1),
      Message(<<"m", "7">>, SubjQuote, <<AddrA, AddrB>>, Time1) }

Min(a, b) == IF a < b THEN a ELSE b

\* The pages the query may return: up to top candidates (MaxPage in the
\* model), no message twice, in any order
PagesOfLen(n) ==
    {p \in [1..n -> Mailbox] : \A i, j \in 1..n : i # j => p[i] # p[j]}

Pages == UNION {PagesOfLen(n) : n \in 0..Min(MaxPage, top)}

\* The service's answers to the query: it throws, or returns a page
QueryResponses == {[ok |-> FALSE, value |-> <<>>]} \cup {[ok |-> TRUE, value |-> p] : p \in Pages}

\* The answers under FairSpec
FairQueryResponses ==
    {[ok |-> FALSE, value |-> <<>>]}
        \cup {[ok |-> TRUE, value |-> p] :
                 p \in UNION {PagesOfLen(n) : n \in 0..Min(MaxFairPage, top)}}

SearchSubjects == {Undefined, <<>>, SubjInv, SubjInvSpaced, SubjQuote}
SearchRecipients == {Undefined, RecipAB, RecipBASpaced, RecipA, RecipOnlySeparator}
SearchTimes == {Undefined, Time1, <<" ">>}

----------------------------------------------------------------------------
(* searchMessageByMetadata on its own: the arguments and the service's      *)
(* answer are drawn in SearchInit, SearchCall applies the function          *)

Pending == [kind |-> "pending"]
Idle == [kind |-> "idle"]

HandlerIdle ==
    /\ rev = RevIndex
    /\ req = Idle
    /\ pc = "idle"
    /\ messageId = Undefined
    /\ search = Idle
    /\ calls = <<>>
    /\ hasAttachments = FALSE
    /\ attachments = <<>>
    /\ attIdx = 0
    /\ draftId = Undefined
    /\ res = [status |-> 0]

SearchInit ==
    /\ HandlerIdle
    /\ sIn \in [rv : SearchingRevisions, subject : SearchSubjects, recipients : SearchRecipients,
                receivedTime : SearchTimes, resp : QueryResponses]
    /\ sOut = Pending

SearchCall ==
    /\ sOut = Pending
    /\ sOut' = searchMessageByMetadata(sIn.rv, sIn.subject, sIn.recipients,
                                       sIn.receivedTime, sIn.resp)
    /\ UNCHANGED <<rev, req, pc, messageId, search, calls, hasAttachments,
                   attachments, attIdx, draftId, res, sIn>>

SearchNext == SearchCall

SpecSearch == SearchInit /\ [][SearchNext]_vars


----------------------------------------------------------------------------
(* The handler: requests and the mail service's answers *)

\* "Bearer t" and a header that carries no Bearer prefix
BearerHeader == <<"B", "e", "a", "r", "e", "r", " ", "t">>
BareHeader == <<"t">>
BearerPrefix == <<"B", "e", "a", "r", "e", "r", " ">>

\* a native id and an EWS-style id, as the caller may supply them
DirectId == <<"m", "1">>
LegacyId == <<"e", "/", "1">>

\* body.accessToken, which part_001 falls back to
BodyToken == <<"t">>

Requests ==
    [authorization : {Undefined, BearerHeader, BareHeader},
     accessToken : {Undefined, BodyToken},
     messageId : {Undefined, <<>>, DirectId, LegacyId},
     subject : {Undefined, SubjInv},
     recipients : {Undefined, RecipAB, RecipOnlySeparator},
     receivedTime : {Undefined, Time1},
     useMetadataSearch : BOOLEAN]

\* the targetId translateExchangeIds may return, and the id of a created draft
TargetIds == {<<"r", "1">>}
DraftIds == {<<"d", "1">>}

\* error.statusCode of a failed call to the mail service
ErrorStatusCodes == {404, 503}

\* An attachment as the service lists it: its @odata.type and which of the
\* shape-specific fields it carries
Attachment(type, contentBytes, item, sourceUrl, providerType) ==
    [type |-> type, contentBytes |-> contentBytes, item |-> item,
     sourceUrl |-> sourceUrl, providerType |-> providerType]

FileAtt == Attachment("fileAttachment", TRUE, FALSE, FALSE, FALSE)
FileAttNoBytes == Attachment("fileAttachment", FALSE, FALSE, FALSE, FALSE)
ItemAtt == Attachment("itemAttachment", FALSE, TRUE, FALSE, FALSE)
ItemAttNoItem == Attachment("itemAttachment", FALSE, FALSE, FALSE, FALSE)
RefAtt == Attachment("referenceAttachment", FALSE, FALSE, TRUE, TRUE)
RefAttNoUrl == Attachment("referenceAttachment", FALSE, FALSE, FALSE, TRUE)
RefAttNoProvider == Attachment("referenceAttachment", FALSE, FALSE, TRUE, FALSE)
OtherAtt == Attachment("other", FALSE, FALSE, FALSE, FALSE)

\* The attachment lists the service may return for an original
AttachmentLists ==
    { <<>>,
      <<FileAtt>>,
      <<FileAttNoBytes, FileAtt>>,
      <<ItemAttNoItem, RefAtt>>,
      <<RefAttNoUrl, FileAtt>>,
      <<RefAttNoProvider, ItemAtt>>,
      <<OtherAtt, FileAtt>>,
      <<FileAtt, ItemAtt, RefAtt>> }

\* One outbound call: the operation, the message id it addresses (Undefined
\* for the query and the draft creation), whether it succeeded, what it returned
Call(op, id, ok, ret) == [op |-> op, id |-> id, ok |-> ok, ret |-> ret]

\* context.res: status, body.success ("absent" for a text body), body.messageIdUsed
Response(status, success, used) ==
    [status |-> status, success |-> success, messageIdUsed |-> used]

NoResponse == [status |-> 0]

----------------------------------------------------------------------------
(* The handler's pure parts *)

\* function validateMessageId(id)
validateMessageId(id) == Truthy(id) /\ ~includes(id, "/")

\* !authHeader.startsWith('Bearer '), authHeader = req.headers.authorization || ''
unauthorized(r) ==
    ~startsWith(IF Truthy(r.authorization) THEN r.authorization ELSE <<>>, BearerPrefix)

\* part_001: neither req.headers.authorization nor req.body.accessToken
noAccessToken(r) == ~Truthy(r.authorization) /\ ~Truthy(r.accessToken)

\* The guard without its `!messageId`: the mutant of searchGuard
searchGuardMut(rv, r) ==
    /\ r.useMetadataSearch
    /\ (Truthy(r.subject) \/ Truthy(r.recipients) \/ Truthy(r.receivedTime))

\* The condition under which the handler calls searchMessageByMetadata:
\* index.js 147, part_000 154; part_004 always searches
searchGuard(rv, r) ==
    CASE rv = RevIndex ->
            /\ ~Truthy(r.messageId)
            /\ r.useMetadataSearch
            /\ (Truthy(r.subject) \/ Truthy(r.recipients) \/ Truthy(r.receivedTime))
      [] rv = RevPart000 -> ~Truthy(r.messageId) /\ r.useMetadataSearch
      [] rv = RevPart004 -> TRUE
      [] rv = RevPart001 -> FALSE

\* The status the handler answers a throwing searchMessageByMetadata with
searchErrorStatus(rv, kind) ==
    IF rv = RevPart000 /\ kind = "throwTime" THEN 400 ELSE 500

\* No id is ever converted: the mutant of needsConversion
needsConversionMut(rv, id) == FALSE

\* !validateMessageId(messageId) && messageId.includes('/'): the handler
\* calls convertExchangeId; part_004 and part_001 have no conversion
needsConversion(rv, id) ==
    rv \in {RevIndex, RevPart000} /\ ~validateMessageId(id) /\ includes(id, "/")

\* Whether the attachment loop skips the attachment without a creation call
skipsAttachment(rv, a) ==
    CASE rv \in {RevIndex, RevPart001} -> FALSE
      [] rv = RevPart000 ->
            \/ a.type = "fileAttachment" /\ ~a.contentBytes
            \/ a.type = "itemAttachment" /\ ~a.item
            \/ a.type = "referenceAttachment" /\ (~a.sourceUrl \/ ~a.providerType)
      [] rv = RevPart004 ->
            LET known == a.type \in {"fileAttachment", "itemAttachment", "referenceAttachment"}
                setBytes == a.type = "fileAttachment" /\ a.contentBytes
                setItem == ~setBytes /\ a.type = "itemAttachment" /\ a.item
                setUrl == ~setBytes /\ ~setItem /\ a.type = "referenceAttachment"
                             /\ a.sourceUrl /\ a.providerType
            IN  IF setBytes \/ setItem \/ setUrl THEN FALSE
                ELSE IF ~known THEN TRUE
                ELSE ~setBytes /\ ~setItem /\ ~setUrl /\ known

\* status: (error.statusCode === 404 ? 404 : 500)
pipelineErrorStatus(statusCode) == IF statusCode = 404 THEN 404 ELSE 500


----------------------------------------------------------------------------
(* The handler, one action per stretch of code between two awaits *)

Init ==
    /\ rev \in Revisions
    /\ req \in Requests
    /\ (rev # RevPart001 => req.accessToken = Undefined) \* read by part_001 alone
    /\ pc = "start"
    /\ messageId = Undefined
    /\ search = Idle
    /\ calls = <<>>
    /\ hasAttachments = FALSE
    /\ attachments = <<>>
    /\ attIdx = 0
    /\ draftId = Undefined
    /\ res = NoResponse
    /\ sIn = Idle
    /\ sOut = Idle

Finish(response) ==
    /\ res' = response
    /\ pc' = "done"

\* From `if (!messageId)` to the fetch: 400 without an id, the conversion
\* for an id with '/', the fetch otherwise. In part_004 the id is the one the
\* search returned and the fetch follows at once.
AfterSearchStage(id) ==
    IF ~Truthy(id) THEN Finish(Response(400, "false", Undefined))
    ELSE /\ pc' = IF needsConversion(rev, id) THEN "convert" ELSE "fetch"
         /\ res' = res

\* part_001 from the entry to the first await: the messageId check, then the
\* token from the header or from the body
BeginPart001 ==
    /\ messageId' = req.messageId
    /\ IF ~Truthy(req.messageId) THEN Finish(Response(400, "false", Undefined))
       ELSE IF noAccessToken(req) THEN Finish(Response(401, "false", Undefined))
       ELSE pc' = "fetch" /\ res' = res

\* From the entry to the first await: the credential check, the body's
\* fields, the search guard
Begin ==
    /\ pc = "start"
    /\ IF rev = RevPart001
       THEN BeginPart001
       ELSE IF unauthorized(req)
       THEN /\ Finish(Response(401, IF rev = RevPart004 THEN "false" ELSE "absent", Undefined))
            /\ UNCHANGED messageId
       ELSE /\ messageId' = IF rev = RevPart004 THEN Undefined ELSE req.messageId
            /\ IF searchGuard(rev, req)
               THEN pc' = "search" /\ res' = res
               ELSE AfterSearchStage(req.messageId)
    /\ UNCHANGED <<rev, req, search, calls, hasAttachments, attachments, attIdx,
                   draftId, sIn, sOut>>

\* A null result falls through to `if (!messageId)`: the mutant of onSearchResult
onSearchResultMut(out) ==
    CASE out.kind = "id" ->
            /\ messageId' = out.id
            /\ AfterSearchStage(out.id)
      [] out.kind = "null" ->
            /\ messageId' = Undefined
            /\ AfterSearchStage(Undefined)
      [] OTHER ->
            /\ UNCHANGED messageId
            /\ Finish(Response(searchErrorStatus(rev, out.kind), "false", Undefined))

\* The search's error is not caught: the mutant of onSearchResult in which a
\* throwing searchMessageByMetadata ends the handler with no response
onSearchResultUncaught(out) ==
    CASE out.kind = "id" ->
            /\ messageId' = out.id
            /\ AfterSearchStage(out.id)
      [] out.kind = "null" ->
            /\ messageId' = Undefined
            /\ Finish(Response(404, "false", Undefined))
      [] OTHER ->
            /\ UNCHANGED messageId
            /\ pc' = "done"
            /\ res' = res

\* The handler's branches on the result of searchMessageByMetadata: an id is
\* kept, null answers 404, a thrown error answers 500 (400 in part_000 for
\* the missing receivedTime)
onSearchResult(out) ==
    CASE out.kind = "id" ->
            /\ messageId' = out.id
            /\ AfterSearchStage(out.id)
      [] out.kind = "null" ->
            /\ messageId' = Undefined
            /\ Finish(Response(404, "false", Undefined))
      [] OTHER ->
            /\ UNCHANGED messageId
            /\ Finish(Response(searchErrorStatus(rev, out.kind), "false", Undefined))

\* The handler's call of searchMessageByMetadata: part_004 passes no receivedTime
handlerSearch(rv, r, resp) ==
    searchMessageByMetadata(rv, r.subject, r.recipients,
                            IF rv = RevPart004 THEN Undefined ELSE r.receivedTime, resp)

\* What the handler does once searchMessageByMetadata has settled with out
SearchSettled(out) ==
    /\ search' = out
    /\ calls' = IF out.queried
                THEN Append(calls, Call("query", Undefined, out.kind # "throwQuery", out.id))
                ELSE calls
    /\ onSearchResult(out)

\* await searchMessageByMetadata(...) and the handler's branches on its result
SearchStep ==
    /\ pc = "search"
    /\ \E resp \in QueryResponses : SearchSettled(handlerSearch(rev, req, resp))
    /\ UNCHANGED <<rev, req, hasAttachments, attachments, attIdx, draftId, sIn, sOut>>

\* The outcomes of the handler's call of searchMessageByMetadata under
\* FairSpec, tabulated by revision and request
FairSearchTable ==
    {[rv |-> x[1], r |-> x[2], out |-> handlerSearch(x[1], x[2], x[3])] :
        x \in SearchingRevisions \X Requests \X FairQueryResponses}

\* The same step with the shorter pages of FairSpec
SearchStepFair ==
    /\ pc = "search"
    /\ \E e \in FairSearchTable : e.rv = rev /\ e.r = req /\ SearchSettled(e.out)
    /\ UNCHANGED <<rev, req, hasAttachments, attachments, attIdx, draftId, sIn, sOut>>

\* The conversion is tried again after a failure: the mutant of ConvertStep
\* that retries
ConvertStepRetries ==
    /\ pc = "convert"
    /\ \/ \E t \in TargetIds :
            /\ calls' = Append(calls, Call("translate", messageId, TRUE, t))
            /\ messageId' = t
            /\ pc' = "fetch"
       \/ \E answered \in BOOLEAN :
            /\ calls' = Append(calls, Call("translate", messageId, answered, Undefined))
            /\ UNCHANGED messageId
            /\ pc' = IF Len(calls) < 3 THEN "convert" ELSE "fetch"
    /\ UNCHANGED <<rev, req, search, hasAttachments, attachments, attIdx, draftId,
                   res, sIn, sOut>>

\* The conversion's error is not caught: the mutant of ConvertStep that
\* raises a failed translation to the caller
ConvertStepRaises ==
    /\ pc = "convert"
    /\ \/ \E t \in TargetIds :
            /\ calls' = Append(calls, Call("translate", messageId, TRUE, t))
            /\ messageId' = t
            /\ pc' = "fetch"
            /\ res' = res
       \/ \E answered \in BOOLEAN :
            /\ calls' = Append(calls, Call("translate", messageId, answered, Undefined))
            /\ UNCHANGED messageId
            /\ Finish(Response(500, "false", Undefined))
    /\ UNCHANGED <<rev, req, search, hasAttachments, attachments, attIdx, draftId,
                   sIn, sOut>>

\* An answer without targetId is returned instead of thrown: the mutant of
\* ConvertStep that assigns undefined to messageId
ConvertStepNoThrow ==
    /\ pc = "convert"
    /\ \/ \E t \in TargetIds :
            /\ calls' = Append(calls, Call("translate", messageId, TRUE, t))
            /\ messageId' = t
       \/ \E answered \in BOOLEAN :
            /\ calls' = Append(calls, Call("translate", messageId, answered, Undefined))
            /\ messageId' = IF answered THEN Undefined ELSE messageId
    /\ pc' = "fetch"
    /\ UNCHANGED <<rev, req, search, hasAttachments, attachments, attIdx, draftId,
                   res, sIn, sOut>>

\* await convertExchangeId(client, messageId, context) inside try/catch: the
\* translated id on success; when the call throws (answered FALSE) or answers
\* without a targetId (answered TRUE) convertExchangeId throws, the handler
\* catches it and messageId keeps its value
ConvertStep ==
    /\ pc = "convert"
    /\ \/ \E t \in TargetIds :
            /\ calls' = Append(calls, Call("translate", messageId, TRUE, t))
            /\ messageId' = t
       \/ \E answered \in BOOLEAN :
            /\ calls' = Append(calls, Call("translate", messageId, answered, Undefined))
            /\ UNCHANGED messageId
    /\ pc' = "fetch"
    /\ UNCHANGED <<rev, req, search, hasAttachments, attachments, attIdx, draftId,
                   res, sIn, sOut>>

\* The error body leaves messageIdUsed out: the mutant of PipelineFailure
PipelineFailureWithoutId(statusCode) ==
    Finish(Response(pipelineErrorStatus(statusCode), "false", Undefined))

\* The catch around the pipeline: 404 or 500 with messageIdUsed; part_001 has
\* the one catch of the handler, which answers 500
PipelineFailure(statusCode) ==
    IF rev = RevPart001 THEN Finish(Response(500, "false", Undefined))
    ELSE Finish(Response(pipelineErrorStatus(statusCode), "false", messageId))

\* The fetch's error is swallowed: the mutant of FetchStep that goes on to
\* the draft after a failed fetch
FetchStepIgnoresFailure ==
    /\ pc = "fetch"
    /\ \E ok \in BOOLEAN :
          calls' = Append(calls, Call("fetch", messageId, ok, Undefined))
    /\ \E ha \in BOOLEAN :
          /\ hasAttachments' = ha
          /\ pc' = IF ha \/ rev = RevPart001 THEN "attachments" ELSE "create"
    /\ UNCHANGED <<rev, req, messageId, search, attachments, attIdx, draftId, res,
                   sIn, sOut>>

\* await client.api(`/me/messages/${messageId}`).select(...).get()
FetchStep ==
    /\ pc = "fetch"
    /\ \/ \E ha \in BOOLEAN :
            /\ calls' = Append(calls, Call("fetch", messageId, TRUE, Undefined))
            /\ hasAttachments' = ha
            /\ pc' = IF ha \/ rev = RevPart001 THEN "attachments" ELSE "create"
            /\ res' = res
       \/ \E sc \in ErrorStatusCodes :
            /\ calls' = Append(calls, Call("fetch", messageId, FALSE, Undefined))
            /\ PipelineFailure(sc)
            /\ UNCHANGED hasAttachments
    /\ UNCHANGED <<rev, req, messageId, search, attachments, attIdx, draftId, sIn, sOut>>

\* await client.api(`/me/messages/${messageId}/attachments`).get()
AttachmentsStep ==
    /\ pc = "attachments"
    /\ \/ \E list \in AttachmentLists :
            /\ calls' = Append(calls, Call("attachments", messageId, TRUE, Undefined))
            /\ attachments' = list
            /\ pc' = "create"
            /\ res' = res
       \/ \E sc \in ErrorStatusCodes :
            /\ calls' = Append(calls, Call("attachments", messageId, FALSE, Undefined))
            /\ PipelineFailure(sc)
            /\ UNCHANGED attachments
    /\ UNCHANGED <<rev, req, messageId, search, hasAttachments, attIdx, draftId, sIn, sOut>>

\* await client.api('/me/messages').post(newMessage)
CreateStep ==
    /\ pc = "create"
    /\ \/ \E d \in DraftIds :
            /\ calls' = Append(calls, Call("create", Undefined, TRUE, d))
            /\ draftId' = d
            /\ pc' = IF Len(attachments) > 0 THEN "attach" ELSE "send"
            /\ attIdx' = IF Len(attachments) > 0 THEN 1 ELSE attIdx
            /\ res' = res
       \/ \E sc \in ErrorStatusCodes :
            /\ calls' = Append(calls, Call("create", Undefined, FALSE, Undefined))
            /\ PipelineFailure(sc)
            /\ UNCHANGED <<draftId, attIdx>>
    /\ UNCHANGED <<rev, req, messageId, search, hasAttachments, attachments, sIn, sOut>>

\* One iteration of `for (const attachment of attachments)`: the attachment is
\* skipped, or its creation call is awaited and a failure caught; part_001
\* has no try/catch in the loop, a failure there ends the pipeline
AttachStep ==
    /\ pc = "attach"
    /\ \/ /\ skipsAttachment(rev, attachments[attIdx])
          /\ UNCHANGED calls
          /\ attIdx' = attIdx + 1
          /\ pc' = IF attIdx = Len(attachments) THEN "send" ELSE "attach"
          /\ res' = res
       \/ /\ ~skipsAttachment(rev, attachments[attIdx])
          /\ \E ok \in BOOLEAN :
               /\ calls' = Append(calls, Call("attach", draftId, ok, Undefined))
               /\ IF ~ok /\ rev = RevPart001
                  THEN PipelineFailure(500) /\ UNCHANGED attIdx
                  ELSE /\ attIdx' = attIdx + 1
                       /\ pc' = IF attIdx = Len(attachments) THEN "send" ELSE "attach"
                       /\ res' = res
    /\ UNCHANGED <<rev, req, messageId, search, hasAttachments, attachments, draftId,
                   sIn, sOut>>

\* A statement between the send and the move throws: the mutant of SendStep
\* that may reach the catch after a successful send
SendStepThrowsAfterSend ==
    /\ pc = "send"
    /\ \/ /\ calls' = Append(calls, Call("send", draftId, TRUE, Undefined))
          /\ \/ pc' = "move" /\ res' = res
             \/ PipelineFailure(500)
       \/ \E sc \in ErrorStatusCodes :
            /\ calls' = Append(calls, Call("send", draftId, FALSE, Undefined))
            /\ PipelineFailure(sc)
    /\ UNCHANGED <<rev, req, messageId, search, hasAttachments, attachments, attIdx,
                   draftId, sIn, sOut>>

\* The send's error is swallowed: the mutant of SendStep that goes on to the
\* move after a failed send
SendStepIgnoresFailure ==
    /\ pc = "send"
    /\ \E ok \in BOOLEAN :
          calls' = Append(calls, Call("send", draftId, ok, Undefined))
    /\ pc' = "move"
    /\ UNCHANGED <<rev, req, messageId, search, hasAttachments, attachments, attIdx,
                   draftId, res, sIn, sOut>>

\* await client.api(`/me/messages/${draftMessage.id}/send`).post({})
SendStep ==
    /\ pc = "send"
    /\ \/ /\ calls' = Append(calls, Call("send", draftId, TRUE, Undefined))
          /\ pc' = "move"
          /\ res' = res
       \/ \E sc \in ErrorStatusCodes :
            /\ calls' = Append(calls, Call("send", draftId, FALSE, Undefined))
            /\ PipelineFailure(sc)
    /\ UNCHANGED <<rev, req, messageId, search, hasAttachments, attachments, attIdx,
                   draftId, sIn, sOut>>

\* The move addresses draftMessage.id: the mutant of MoveStep that moves the
\* draft instead of the original
MoveStepOnDraft ==
    /\ pc = "move"
    /\ \/ /\ calls' = Append(calls, Call("move", draftId, TRUE, Undefined))
          /\ Finish(Response(200, "true", Undefined))
       \/ \E sc \in ErrorStatusCodes :
            /\ calls' = Append(calls, Call("move", draftId, FALSE, Undefined))
            /\ PipelineFailure(sc)
    /\ UNCHANGED <<rev, req, messageId, search, hasAttachments, attachments, attIdx,
                   draftId, sIn, sOut>>

\* The move is not awaited inside the try: the mutant of MoveStep that answers
\* 200 whether or not the move succeeded
MoveStepUnchecked ==
    /\ pc = "move"
    /\ \E ok \in BOOLEAN :
          calls' = Append(calls, Call("move", messageId, ok, Undefined))
    /\ Finish(Response(200, "true", Undefined))
    /\ UNCHANGED <<rev, req, messageId, search, hasAttachments, attachments, attIdx,
                   draftId, sIn, sOut>>

\* await client.api(`/me/messages/${messageId}/move`).post(...) and the 200
MoveStep ==
    /\ pc = "move"
    /\ \/ /\ calls' = Append(calls, Call("move", messageId, TRUE, Undefined))
          /\ Finish(Response(200, "true", Undefined))
       \/ \E sc \in ErrorStatusCodes :
            /\ calls' = Append(calls, Call("move", messageId, FALSE, Undefined))
            /\ PipelineFailure(sc)
    /\ UNCHANGED <<rev, req, messageId, search, hasAttachments, attachments, attIdx,
                   draftId, sIn, sOut>>

Next ==
    \/ Begin
    \/ SearchStep
    \/ ConvertStep
    \/ FetchStep
    \/ AttachmentsStep
    \/ CreateStep
    \/ AttachStep
    \/ SendStep
    \/ MoveStep

Spec == Init /\ [][Next]_vars

\* The handler is an async function the runtime runs to its end: every await
\* settles, so a step that can be taken is taken
FairNext ==
    \/ Begin
    \/ SearchStepFair
    \/ ConvertStep
    \/ FetchStep
    \/ AttachmentsStep
    \/ CreateStep
    \/ AttachStep
    \/ SendStep
    \/ MoveStep

FairSpec == Init /\ [][FairNext]_vars /\ WF_vars(FairNext)


----------------------------------------------------------------------------
(* What the claims speak of *)

CallIndexes(ops) == {i \in 1..Len(calls) : calls[i].op \in ops}

\* the calls that address the original message by id
ByIdOps == {"fetch", "attachments", "move"}

\* the revisions whose resolver reads the request's messageId (part_004
\* reads none, part_001 has no resolver)
ReadsMessageId == rev \in {RevIndex, RevPart000}

Authorized == ~unauthorized(req)

\* the request's messageId is non-empty and holds no '/'
DirectRequest == ReadsMessageId /\ Truthy(req.messageId) /\ ~includes(req.messageId, "/")

\* the request's messageId holds a '/'
LegacyRequest == ReadsMessageId /\ Truthy(req.messageId) /\ includes(req.messageId, "/")

\* the translation call of this request returned a targetId
Translated == \E i \in CallIndexes({"translate"}) : calls[i].ret # Undefined

\* the translation call of this request threw or returned no targetId
TranslationFailed == \E i \in CallIndexes({"translate"}) : calls[i].ret = Undefined

TranslatedId == calls[CHOOSE i \in CallIndexes({"translate"}) : calls[i].ret # Undefined].ret

\* at least one of subject, recipients, receivedTime is supplied
HasCriteria == Truthy(req.subject) \/ Truthy(req.recipients) \/ Truthy(req.receivedTime)

----------------------------------------------------------------------------
(* C1: a request whose messageId is non-empty and holds no '/' has that very
   string as the id of every by-id fetch, and makes neither a translation call
   nor a metadata query, whatever subject, recipients, receivedTime and
   useMetadataSearch are. *)
C1_DirectIdShortCircuit ==
    DirectRequest =>
        /\ CallIndexes({"translate", "query"}) = {}
        /\ search = Idle
        /\ \A i \in CallIndexes({"fetch"}) : calls[i].id = req.messageId
        /\ (Authorized /\ pc # "start" => messageId = req.messageId)
        /\ (Authorized /\ pc \notin {"start", "fetch"} => calls # <<>> /\ calls[1].op = "fetch")

\* a direct id that was fetched although every search attribute was supplied
\* and the metadata search allowed
C1_Witness ==
    /\ DirectRequest
    /\ req.useMetadataSearch /\ Truthy(req.subject) /\ Truthy(req.recipients)
    /\ Truthy(req.receivedTime)
    /\ \E i \in CallIndexes({"fetch"}) : calls[i].id = DirectId /\ calls[i].ok

(* C2: when the request's messageId holds a '/' and the translation service
   returns a targetId, every by-id call (fetch, attachment list, move) is
   addressed to that targetId, and the request makes exactly one translation
   call, for the caller's id. *)
C2_LegacyIdTranslated ==
    LegacyRequest =>
        /\ Cardinality(CallIndexes({"translate"})) <= 1
        /\ (Authorized /\ pc \notin {"start", "convert"} =>
                /\ Cardinality(CallIndexes({"translate"})) = 1
                /\ calls[1].op = "translate" /\ calls[1].id = req.messageId)
        /\ (Translated =>
                /\ messageId = TranslatedId
                /\ \A i \in CallIndexes(ByIdOps) : calls[i].id = TranslatedId)

\* a translated legacy id that was fetched and, at the end, moved
C2_Witness ==
    /\ LegacyRequest /\ Translated
    /\ pc = "done" /\ res.status = 200
    /\ \E i \in CallIndexes({"move"}) : calls[i].id = TranslatedId /\ calls[i].ok

(* C3, as stated: when messageId holds a '/' and the translation fails, the
   failure is not raised; the metadata search then runs if useMetadataSearch
   is true and a criterion is supplied, and otherwise the request ends 404 or
   400; no call ever addresses a message by the untranslated id. *)
C3_FallThroughToSearch ==
    (LegacyRequest /\ TranslationFailed) =>
        /\ \A i \in CallIndexes(ByIdOps) : calls[i].id # req.messageId
        /\ (pc = "done" =>
               IF req.useMetadataSearch /\ HasCriteria
               THEN search # Idle
               ELSE res.status \in {400, 404})

(* C3, amended: when messageId holds a '/' and the translation fails, the
   failure is not raised to the caller; no metadata search runs, messageId
   keeps the untranslated id, and the next call is the by-id fetch of that
   untranslated id, whose outcome decides the response. *)
C3_FallBackToOriginalId ==
    (LegacyRequest /\ TranslationFailed) =>
        /\ search = Idle /\ CallIndexes({"query"}) = {}
        /\ messageId = req.messageId
        /\ pc # "convert"
        /\ (pc = "fetch" => res = NoResponse /\ Len(calls) = 1)
        /\ (pc # "fetch" =>
               /\ Len(calls) >= 2
               /\ calls[2].op = "fetch" /\ calls[2].id = req.messageId)
        /\ (pc = "done" /\ ~calls[2].ok => res.messageIdUsed = req.messageId)

\* a failed translation after which the untranslated id was fetched, with the
\* metadata search allowed and every criterion supplied
C3_Witness ==
    /\ LegacyRequest /\ TranslationFailed
    /\ req.useMetadataSearch /\ HasCriteria
    /\ pc = "done"
    /\ \E i \in CallIndexes({"fetch"}) : calls[i].id = LegacyId

\* the ids the handler may address a message by, as the claim lists them
DirectIds == IF DirectRequest THEN {req.messageId} ELSE {}
TranslatedIds == {calls[i].ret : i \in {j \in CallIndexes({"translate"}) : calls[j].ret # Undefined}}
ValidatedIds == IF search # Idle /\ search.kind = "id" THEN {search.id} ELSE {}
\* an id with '/' (the caller's, or the one the search returned) whose translation failed
UntranslatedIds ==
    {calls[i].id : i \in {j \in CallIndexes({"translate"}) : calls[j].ret = Undefined}}

(* C4, as stated: every id a by-id call (fetch, attachment list, move)
   addresses is the caller's messageId without '/', a targetId the translation
   returned, or the id of a candidate the metadata search returned; no
   untranslated id with '/' is ever used. *)
C4_Provenance ==
    rev \in SearchingRevisions =>
    \A i \in CallIndexes(ByIdOps) :
        /\ calls[i].id \in DirectIds \cup TranslatedIds \cup ValidatedIds
        /\ (includes(calls[i].id, "/") => calls[i].id \in TranslatedIds)

(* C4, amended: every id a by-id call addresses is the caller's messageId
   without '/', a targetId the translation returned, the id of a candidate the
   metadata search returned, or an id with '/' (the caller's or the
   search's) whose translation call failed in this request. *)
C4_ProvenanceWithFallback ==
    rev \in SearchingRevisions =>
    \A i \in CallIndexes(ByIdOps) :
        /\ calls[i].id = messageId
        /\ \/ calls[i].id \in DirectIds
           \/ calls[i].id \in TranslatedIds
           \/ calls[i].id \in ValidatedIds /\ (ReadsMessageId => ~includes(calls[i].id, "/"))
           \/ calls[i].id \in UntranslatedIds /\ TranslatedIds = {}

\* a validated candidate's id that was fetched and moved
C4_Witness ==
    /\ search # Idle /\ search.kind = "id"
    /\ pc = "done" /\ res.status = 200
    /\ \E i \in CallIndexes({"move"}) : calls[i].id = search.id

(* C7: when the metadata query succeeds and no candidate is returned by the
   validation loop (the page is empty or every candidate is skipped),
   searchMessageByMetadata returns null and the handler answers 404 with
   success false; the request ends there, with no by-id fetch, draft
   creation, send or move. *)
C7_NotFound ==
    (\E i \in CallIndexes({"query"}) : calls[i].ok /\ calls[i].ret = Undefined) =>
        /\ search.kind = "null"
        /\ pc = "done"
        /\ res = Response(404, "false", Undefined)
        /\ Len(calls) = 1

\* a successful query with candidates none of which passed, answered 404
C7_Witness ==
    /\ search # Idle /\ search.kind = "null" /\ search.queried /\ search.examined > 0
    /\ res.status = 404

(* C8: a request with no messageId, useMetadataSearch true and subject,
   recipients and receivedTime all empty or absent ends with HTTP 400, and
   the query service is never called. *)
C8_InsufficientCriteria ==
    (Authorized /\ ~Truthy(req.messageId) /\ req.useMetadataSearch /\ ~HasCriteria) =>
        /\ CallIndexes({"query"}) = {}
        /\ (pc = "done" => res.status = 400)

(* C9: whenever the metadata query call throws, the request ends with a 500
   response with success false, never 404; and a 404 of the resolver stage
   (one without messageIdUsed, before any by-id call) occurs only when the
   query call returned successfully. *)
C9_SearchFailureDistinct ==
    /\ (\E i \in CallIndexes({"query"}) : ~calls[i].ok) =>
           pc = "done" /\ res.status = 500 /\ res.success = "false" /\ Len(calls) = 1
    /\ (pc = "done" /\ res.status = 404 /\ CallIndexes({"fetch"}) = {}) =>
           \E i \in CallIndexes({"query"}) : calls[i].ok


----------------------------------------------------------------------------
(* The checks of the specification, stated on their own: what a returned
   candidate must satisfy, whatever the revision's loop looks like *)

\* the expected addresses: the recipients string's pieces, trimmed and
\* lowercased, the empty ones dropped
ExpectedAddresses(recipients) ==
    IF Truthy(recipients)
    THEN {toLowerCase(trim(x)) : x \in {split(recipients, ";")[i] :
                                          i \in 1..Len(split(recipients, ";"))}} \ {<<>>}
    ELSE {}

\* the candidate's addresses, lowercased
CandidateAddresses(m) ==
    {toLowerCase(m.toRecipients[i]) :
        i \in {j \in 1..Len(m.toRecipients) : Truthy(m.toRecipients[j])}}

SuppliedSubjectHolds(subject, m) ==
    Truthy(subject) =>
        toLowerCase(trim(IF Truthy(m.subject) THEN m.subject ELSE <<>>)) = toLowerCase(trim(subject))

SuppliedRecipientsHold(recipients, m) ==
    ExpectedAddresses(recipients) \subseteq CandidateAddresses(m)

SuppliedChecksHold(subject, recipients, m) ==
    SuppliedSubjectHolds(subject, m) /\ SuppliedRecipientsHold(recipients, m)

\* searchMessageByMetadata was applied and the query returned a page
SearchedPage == sOut \notin {Pending, Idle} /\ sOut.queried /\ sIn.resp.ok

SearchPage == sIn.resp.value

\* the revisions C5, C6 and C10 name
ValidatingRevisions == {RevIndex, RevPart000}

(* C5: whenever searchMessageByMetadata returns a candidate's id, whatever
   page the query returned, that candidate satisfies every supplied check:
   its subject, trimmed and lowercased, equals the supplied one's, and every
   expected address (one or more) is among its lowercased recipients. A page
   in which no candidate satisfies them yields null. *)
C5_ValidationSound ==
    (SearchedPage /\ sIn.rv \in ValidatingRevisions) =>
        /\ sOut.kind = "id" =>
              \E i \in 1..Len(SearchPage) :
                  /\ SearchPage[i].id = sOut.id
                  /\ SuppliedChecksHold(sIn.subject, sIn.recipients, SearchPage[i])
        /\ (\A i \in 1..Len(SearchPage) :
               ~SuppliedChecksHold(sIn.subject, sIn.recipients, SearchPage[i]))
              => sOut.kind = "null"

\* The same for part_000 alone, whose loop checks subject and recipients
C5_ValidationSoundPart000 ==
    (SearchedPage /\ sIn.rv = RevPart000) =>
        /\ sOut.kind = "id" =>
              \E i \in 1..Len(SearchPage) :
                  /\ SearchPage[i].id = sOut.id
                  /\ SuppliedChecksHold(sIn.subject, sIn.recipients, SearchPage[i])
        /\ (\A i \in 1..Len(SearchPage) :
               ~SuppliedChecksHold(sIn.subject, sIn.recipients, SearchPage[i]))
              => sOut.kind = "null"

\* the positions of the page whose candidate satisfies every supplied check
Satisfying == {i \in 1..Len(SearchPage) :
                  SuppliedChecksHold(sIn.subject, sIn.recipients, SearchPage[i])}

FirstSatisfying == CHOOSE i \in Satisfying : \A j \in Satisfying : i <= j

(* C6: searchMessageByMetadata returns the id of the first candidate, in the
   order of the page, that satisfies all supplied checks; the candidates
   before it are skipped and those after it are not examined; and null when
   there is none. *)
C6_FirstMatchWins ==
    (SearchedPage /\ sIn.rv \in ValidatingRevisions) =>
        IF Satisfying = {}
        THEN sOut.kind = "null"
        ELSE /\ sOut.kind = "id"
             /\ sOut.id = SearchPage[FirstSatisfying].id
             /\ sOut.examined = FirstSatisfying

\* The same for part_000 alone
C6_FirstMatchWinsPart000 ==
    (SearchedPage /\ sIn.rv = RevPart000) =>
        IF Satisfying = {}
        THEN sOut.kind = "null"
        ELSE /\ sOut.kind = "id"
             /\ sOut.id = SearchPage[FirstSatisfying].id
             /\ sOut.examined = FirstSatisfying

\* the candidates the loop skipped: those before the returned one, or all
Skipped ==
    IF sOut.kind = "id" THEN 1..(sOut.examined - 1) ELSE 1..Len(SearchPage)

(* C10: a candidate whose recipients contain every expected address passes
   the recipient check, whatever the letter case, the order and the extra
   recipients: every candidate the loop skipped either failed the revision's
   subject check or lacks an expected address. *)
C10_RecipientMatchComplete ==
    SearchedPage =>
        \A i \in Skipped :
            subjectMatch(sIn.rv, sIn.subject, SearchPage[i]) =>
                ~SuppliedRecipientsHold(sIn.recipients, SearchPage[i])

\* recipients " B@X ; a@x " and a candidate with recipients B@X, A@X, c@x,
\* returned although it does not come first
C10_Witness ==
    /\ SearchedPage
    /\ sIn.recipients = RecipBASpaced
    /\ sOut.kind = "id" /\ sOut.id = <<"m", "2">> /\ sOut.examined > 1

\* the positions of the page the loop ran its checks on
Examined == 1..sOut.examined

\* the candidate's subject equals the supplied one up to leading and trailing
\* whitespace and letter case
SubjectsEqualUpToCaseAndSpace(subject, m) ==
    /\ Truthy(subject) /\ Truthy(m.subject)
    /\ toLowerCase(trim(m.subject)) = toLowerCase(trim(subject))

\* the revisions C11 names
SubjectCheckingRevisions == {RevPart000, RevPart004}

(* C11: a candidate whose subject equals the supplied subject up to leading
   and trailing whitespace and letter case, on either side, passes the
   subject check: no candidate the loop examined with such a subject is
   skipped by the subject check. *)
C11_SubjectMatchComplete ==
    (SearchedPage /\ sIn.rv \in SubjectCheckingRevisions) =>
        \A i \in Examined :
            SubjectsEqualUpToCaseAndSpace(sIn.subject, SearchPage[i]) =>
                subjectMatch(sIn.rv, sIn.subject, SearchPage[i])

\* The same for part_000 alone, which compares the trimmed, lowercased strings
C11_SubjectMatchCompletePart000 ==
    (SearchedPage /\ sIn.rv = RevPart000) =>
        \A i \in Examined :
            SubjectsEqualUpToCaseAndSpace(sIn.subject, SearchPage[i]) =>
                subjectMatch(sIn.rv, sIn.subject, SearchPage[i])

----------------------------------------------------------------------------
(* C12: every request whose authorization header does not carry a 'Bearer '
   credential ends with HTTP 401 and makes no outbound call to the mail
   service, whatever the body contains, a missing messageId included. *)
C12_MissingCredential ==
    unauthorized(req) =>
        /\ calls = <<>>
        /\ pc \in {"start", "done"}
        /\ (pc = "done" => res.status = 401)

\* The same for the revisions that check the header for its 'Bearer ' prefix
C12_MissingCredentialWithResolver ==
    (unauthorized(req) /\ rev \in SearchingRevisions) =>
        /\ calls = <<>>
        /\ pc \in {"start", "done"}
        /\ (pc = "done" => res.status = 401)

\* the request made a successful call of the operation
Succeeded(op) == \E i \in CallIndexes({op}) : calls[i].ok

\* the four calls a completed forward consists of
CompletionOps == {"fetch", "create", "send", "move"}

(* C13: the handler answers 200 with success true only in a state where the
   by-id fetch, the draft creation, the send and the move of the original
   have all succeeded in this request; a failure of any of the four ends the
   request with a status other than 200 and success false. *)
C13_SuccessOnlyOnCompletion ==
    /\ (res # NoResponse /\ (res.status = 200 \/ res.success = "true")) =>
           /\ res.status = 200 /\ res.success = "true" /\ pc = "done"
           /\ \A op \in CompletionOps : Succeeded(op)
           /\ calls[Len(calls)].op = "move"
    /\ (\E i \in CallIndexes(CompletionOps) : ~calls[i].ok) =>
           /\ pc = "done"
           /\ res.status # 200 /\ res.success = "false"

\* a request answered 200 after a fetch, an attachment list, a draft, three
\* attachments, a send and a move
C13_Witness ==
    /\ pc = "done" /\ res.status = 200 /\ res.success = "true"
    /\ Len(attachments) = 3
    /\ \A op \in CompletionOps : Succeeded(op)

\* a creation call for an attachment failed in this request
AttachmentFailed == \E i \in CallIndexes({"attach"}) : ~calls[i].ok

\* the attachments of the list the loop does not skip
Attempted == {k \in 1..Len(attachments) : ~skipsAttachment(rev, attachments[k])}

\* the loop over the attachments is over
AfterLoop == pc \in {"send", "move", "done"}

(* C14: when the creation call of an attachment fails, the failure is caught:
   every later attachment of the list is still attempted, the send and the
   move are still called, and the request answers 200 with success true when
   send and move succeed. *)
C14_AttachmentFailureIsolated ==
    AttachmentFailed =>
        /\ (AfterLoop => Cardinality(CallIndexes({"attach"})) = Cardinality(Attempted))
        /\ (pc = "done" => CallIndexes({"send"}) # {})
        /\ (pc = "done" /\ Succeeded("send") => CallIndexes({"move"}) # {})
        /\ (pc = "done" /\ Succeeded("send") /\ Succeeded("move") =>
                res.status = 200 /\ res.success = "true")

\* The same for the revisions whose loop catches the failure
C14_AttachmentFailureIsolatedWithCatch ==
    (AttachmentFailed /\ rev \in SearchingRevisions) =>
        /\ (AfterLoop => Cardinality(CallIndexes({"attach"})) = Cardinality(Attempted))
        /\ (pc = "done" => CallIndexes({"send"}) # {})
        /\ (pc = "done" /\ Succeeded("send") => CallIndexes({"move"}) # {})
        /\ (pc = "done" /\ Succeeded("send") /\ Succeeded("move") =>
                res.status = 200 /\ res.success = "true")

\* an attachment that lacks the field its type requires
Malformed(a) ==
    \/ a.type = "fileAttachment" /\ ~a.contentBytes
    \/ a.type = "itemAttachment" /\ ~a.item
    \/ a.type = "referenceAttachment" /\ (~a.sourceUrl \/ ~a.providerType)

\* the positions of the list the loop has dealt with
Processed == IF pc = "attach" THEN 1..(attIdx - 1) ELSE 1..Len(attachments)

WellFormedProcessed == {k \in Processed : ~Malformed(attachments[k])}

(* C15: for a fileAttachment without contentBytes, an itemAttachment without
   item, or a referenceAttachment without sourceUrl or without providerType,
   no attachment-creation call is issued, and the loop goes on with the next
   attachment: the creation calls made are at most as many as the well-formed
   attachments dealt with, and a skip leaves the request unanswered. *)
C15_MalformedSkipped ==
    rev \in SearchingRevisions =>
        /\ Cardinality(CallIndexes({"attach"})) <= Cardinality(WellFormedProcessed)
        /\ (pc = "attach" => res = NoResponse)

\* The same for part_000 and part_004, whose loops test the required field
C15_MalformedSkippedWithTest ==
    rev \in {RevPart000, RevPart004} =>
        /\ Cardinality(CallIndexes({"attach"})) <= Cardinality(WellFormedProcessed)
        /\ (pc = "attach" => res = NoResponse)

\* the calls of the forwarding pipeline and their place in its order
PipelineRank ==
    [fetch |-> 1, attachments |-> 2, create |-> 3, attach |-> 4, send |-> 5, move |-> 6]

PipelineCalls == CallIndexes(DOMAIN PipelineRank)

(* C16: within a request the outbound calls of the pipeline occur in the order
   fetch original, attachment list (if any), create draft, attachment
   creations, send draft, move original, each but the attachment creations at
   most once and each after the success of the ones before; the send is
   called only after every attachment has been attempted, and the move only
   after the send has succeeded. *)
C16_PipelineOrder ==
    /\ \A i, j \in PipelineCalls :
          i < j =>
             /\ PipelineRank[calls[i].op] <= PipelineRank[calls[j].op]
             /\ (calls[i].op = calls[j].op => calls[i].op = "attach")
             /\ (calls[i].op # "attach" => calls[i].ok)
    /\ \A j \in PipelineCalls :
          /\ calls[j].op # "fetch" => Succeeded("fetch")
          /\ calls[j].op \in {"attach", "send", "move"} => Succeeded("create")
          /\ calls[j].op = "send" =>
                Cardinality(CallIndexes({"attach"})) = Cardinality(Attempted)
          /\ calls[j].op = "move" =>
                \E i \in CallIndexes({"send"}) : i < j /\ calls[i].ok

\* a request whose send failed after two attachment creations: the original
\* is not moved
C16_Witness ==
    /\ pc = "done"
    /\ \E i \in CallIndexes({"send"}) : ~calls[i].ok
    /\ Cardinality(CallIndexes({"attach"})) = 2
    /\ CallIndexes({"move"}) = {}

\* the calls after resolution whose failure ends the pipeline
StageOps == {"fetch", "attachments", "create", "send", "move"}

(* C17: a failure of any call after resolution (fetch, attachment list, draft
   creation, send, move) ends the request with a server-error response that
   carries success false and messageIdUsed equal to the resolved id; the
   status is 404 only when the failed call is the by-id fetch of the
   original, and 500 for every other failure after resolution, a 404 of the
   send or the move included. *)
C17_PipelineFailureMapping ==
    rev \in SearchingRevisions =>
        \A i \in CallIndexes(StageOps) :
            ~calls[i].ok =>
                /\ pc = "done" /\ i = Len(calls)
                /\ res.success = "false"
                /\ res.messageIdUsed = messageId
                /\ res.status \in {404, 500}
                /\ (calls[i].op # "fetch" => res.status = 500)

\* What the catch does for every stage: success false, messageIdUsed, and 404
\* or 500 as the failed call's status code is 404 or not
C17_PipelineFailureReported ==
    rev \in SearchingRevisions =>
        \A i \in CallIndexes(StageOps) :
            ~calls[i].ok =>
                /\ pc = "done" /\ i = Len(calls)
                /\ res.success = "false"
                /\ res.messageIdUsed = messageId
                /\ res.status \in {404, 500}

(* C18: in every request where useMetadataSearch is false or absent the
   metadata query service is never called, whatever subject, recipients and
   receivedTime are supplied; with no messageId such a request ends with
   HTTP 400. *)
C18_MetadataSearchGate ==
    ~req.useMetadataSearch =>
        /\ CallIndexes({"query"}) = {}
        /\ (Authorized /\ ~Truthy(req.messageId) /\ pc # "start" =>
                pc = "done" /\ res.status = 400)

\* The same for the revisions whose handler reads the flag
C18_MetadataSearchGateWithFlag ==
    (~req.useMetadataSearch /\ rev # RevPart004) =>
        /\ CallIndexes({"query"}) = {}
        /\ (Authorized /\ ~Truthy(req.messageId) /\ pc # "start" =>
                pc = "done" /\ res.status = 400)

\* the statuses of a final response
FinalStatuses == {200, 400, 401, 404, 500}

\* the handler has returned, with a response
Responded == pc = "done" /\ res # NoResponse /\ res.status \in FinalStatuses

(* C19: for every request and every combination of success and failure of the
   outbound calls (query, translation, fetch, attachment list, create,
   attachment create, send, move) the handler eventually returns with a
   response whose status is one of 200, 400, 401, 404, 500; it has returned
   exactly when the response is set, and the response, once set, is not
   changed. *)
C19_Terminates ==
    /\ <>[]Responded
    /\ [](pc = "done" <=> res # NoResponse)
    /\ [](pc = "done" => Responded)
    /\ [][res # NoResponse => res' = res]_vars

\* a request answered 500 after the query service threw
C19_Witness ==
    /\ Responded /\ res.status = 500
    /\ search # Idle /\ search.kind = "throwQuery"

\* the metadata search of this request returned a candidate's id
SearchProducedId == search # Idle /\ search.kind = "id"

(* C20: in any single request, once one strategy has produced an id no other
   resolver service is called: a request makes a metadata query or a
   translation call, never both, and an id returned by a successful metadata
   search is the id of the by-id fetch exactly as returned, with no
   translation call in that request, even if that id holds a '/'. *)
C20_StrategyExclusive ==
    /\ ~(CallIndexes({"query"}) # {} /\ CallIndexes({"translate"}) # {})
    /\ SearchProducedId =>
          /\ CallIndexes({"translate"}) = {}
          /\ pc # "convert"
          /\ \A i \in CallIndexes(ByIdOps) : calls[i].id = search.id

\* The same for the ids without '/', which the handler does not convert
C20_StrategyExclusiveForNativeIds ==
    (SearchProducedId => ~includes(search.id, "/")) =>
        /\ ~(CallIndexes({"query"}) # {} /\ CallIndexes({"translate"}) # {})
        /\ SearchProducedId =>
              /\ CallIndexes({"translate"}) = {}
              /\ pc # "convert"
              /\ \A i \in CallIndexes(ByIdOps) : calls[i].id = search.id

----------------------------------------------------------------------------
(* C21: in any request the metadata query is issued at most once and the
   translation service is called at most once; neither is retried after a
   failure or after a page in which no candidate validated, and no more than
   the candidates of that one page, at most 5, are examined. *)
C21_BoundedResolverCalls ==
    /\ Cardinality(CallIndexes({"query"})) <= 1
    /\ Cardinality(CallIndexes({"translate"})) <= 1
    /\ (search # Idle =>
           /\ search.examined <= top
           /\ (search.queried <=> CallIndexes({"query"}) # {})
           /\ (~search.queried => search.examined = 0))
    /\ (search = Idle => CallIndexes({"query"}) = {})
    /\ \A i \in CallIndexes({"query", "translate"}) :
          ~calls[i].ok /\ i < Len(calls) => calls[i + 1].op \notin {"query", "translate"}

\* a request that ended after one query and one failed translation, both of
\* them followed by no second attempt
C21_Witness ==
    /\ pc = "done"
    /\ Cardinality(CallIndexes({"query"})) = 1
    /\ \E i \in CallIndexes({"translate"}) : ~calls[i].ok

\* the request asks for a metadata search without receivedTime, by a subject
\* or by at least one address
SearchWithoutTime ==
    /\ Authorized /\ ~Truthy(req.messageId) /\ req.useMetadataSearch
    /\ ~Truthy(req.receivedTime)
    /\ (Truthy(req.subject) \/ fullRecipientListOf(req.recipients) # <<>>)

\* the filter of subject and first recipient, whichever are present
FilterWithoutTime(r) ==
    (IF Truthy(r.subject) THEN <<Term("subject", doubleQuotes(r.subject))>> ELSE <<>>)
    \o (IF fullRecipientListOf(r.recipients) # <<>>
        THEN <<Term("toRecipients", doubleQuotes(fullRecipientListOf(r.recipients)[1]))>>
        ELSE <<>>)

(* C22: when no messageId is given, useMetadataSearch is true, receivedTime is
   absent or empty and subject or recipients is supplied, the metadata search
   is not blocked: a query is issued whose filter is built from the subject
   and the first recipient only, and the request is not answered 400. *)
C22_OmitAbsentReceivedTime ==
    (SearchWithoutTime /\ rev \in SearchingRevisions /\ pc \notin {"start", "search"}) =>
        /\ CallIndexes({"query"}) # {}
        /\ search.queried /\ search.filter = FilterWithoutTime(req)
        /\ (pc = "done" => res.status # 400)

\* The same for index.js and part_004, which do not require receivedTime
C22_OmitAbsentReceivedTimeWhereOptional ==
    (SearchWithoutTime /\ rev \in {RevIndex, RevPart004} /\ pc \notin {"start", "search"}) =>
        /\ CallIndexes({"query"}) # {}
        /\ search.queried /\ search.filter = FilterWithoutTime(req)
        /\ (pc = "done" => res.status # 400)

\* the terms of a filter, as a set
TermsOf(filter) == {filter[i] : i \in 1..Len(filter)}

\* the subject term, the receivedTime term and the term on the first
\* normalized recipient, each when its criterion is present
SubjectTermOf(subject) ==
    IF Truthy(subject) THEN {Term("subject", doubleQuotes(subject))} ELSE {}

ReceivedTimeTermOf(receivedTime) ==
    IF Truthy(receivedTime)
    THEN {Term("receivedDateTime", doubleQuotes(receivedTime))} ELSE {}

FirstRecipientTermOf(recipients) ==
    IF fullRecipientListOf(recipients) # <<>>
    THEN {Term("toRecipients", doubleQuotes(fullRecipientListOf(recipients)[1]))}
    ELSE {}

\* the filters the claim allows: with a receivedTime its term alone or with
\* the subject term, without one the subject and first recipient terms present
ExpectedFilters(subject, recipients, receivedTime) ==
    IF Truthy(receivedTime)
    THEN {ReceivedTimeTermOf(receivedTime),
          ReceivedTimeTermOf(receivedTime) \cup SubjectTermOf(subject)}
    ELSE {SubjectTermOf(subject) \cup FirstRecipientTermOf(recipients)}

\* searchMessageByMetadata was applied and issued its query
Queried == sOut \notin {Pending, Idle} /\ sOut.queried

\* the revisions C23 names
FilterRevisions == {RevIndex, RevPart000}

(* C23: the filter of the query is the conjunction of exactly the present
   terms among subject equality, receivedTime equality and a containment test
   on the first normalized recipient, never on a later one; and when
   receivedTime is supplied the filter holds the receivedTime term alone or
   with the subject term, and no recipient term. *)
C23_FilterConstruction ==
    (Queried /\ sIn.rv \in FilterRevisions) =>
        /\ TermsOf(sOut.filter) \in ExpectedFilters(sIn.subject, sIn.recipients, sIn.receivedTime)
        /\ Len(sOut.filter) = Cardinality(TermsOf(sOut.filter))

\* The same for part_000 alone, which filters by receivedTime only
C23_FilterConstructionPart000 ==
    (Queried /\ sIn.rv = RevPart000) =>
        /\ TermsOf(sOut.filter) \in ExpectedFilters(sIn.subject, sIn.recipients, sIn.receivedTime)
        /\ Len(sOut.filter) = Cardinality(TermsOf(sOut.filter))

\* What holds of every revision's filter: it is not empty, each of its terms
\* is a present criterion, and its recipient term, if any, tests the first
\* normalized recipient
C23_FilterOfPresentTerms ==
    Queried =>
        /\ sOut.filter # <<>>
        /\ \A t \in TermsOf(sOut.filter) :
              \/ t.field = "subject" /\ Truthy(sIn.subject)
              \/ t.field = "receivedDateTime" /\ Truthy(sIn.receivedTime)
              \/ /\ t.field = "toRecipients"
                 /\ fullRecipientListOf(sIn.recipients) # <<>>
                 /\ t.value = doubleQuotes(fullRecipientListOf(sIn.recipients)[1])

----------------------------------------------------------------------------
\* the original was fetched and has hasAttachments false
FetchedWithoutAttachments == Succeeded("fetch") /\ ~hasAttachments

(* C24: when the fetched original has hasAttachments false, the
   attachment-list call is not made and no attachment-creation call is
   issued; the pipeline goes from the draft creation directly to the send. *)
C24_AttachmentFetchConditional ==
    FetchedWithoutAttachments =>
        /\ CallIndexes({"attachments", "attach"}) = {}
        /\ pc \notin {"attachments", "attach"}
        /\ \A i \in CallIndexes({"create"}) :
              calls[i].ok /\ i < Len(calls) => calls[i + 1].op = "send"

\* The same for the revisions that read message.hasAttachments
C24_AttachmentFetchConditionalWhereRead ==
    (FetchedWithoutAttachments /\ rev \in SearchingRevisions) =>
        /\ CallIndexes({"attachments", "attach"}) = {}
        /\ pc \notin {"attachments", "attach"}
        /\ \A i \in CallIndexes({"create"}) :
              calls[i].ok /\ i < Len(calls) => calls[i + 1].op = "send"

----------------------------------------------------------------------------
\* the candidate's receivedDateTime string differs from the requested one
TimestampDiffers(m) == m.receivedDateTime # sIn.receivedTime

(* C25: a candidate the query returned whose receivedDateTime string differs
   from the requested receivedTime is not skipped for that reason: it goes on
   to the subject and recipient checks and is returned if it passes them, so
   that no such candidate which satisfies the supplied checks is among the
   skipped ones. *)
C25_TimestampMismatchTolerated ==
    (SearchedPage /\ sIn.rv = RevPart000) =>
        \A i \in 1..Len(SearchPage) :
            (TimestampDiffers(SearchPage[i])
                /\ SuppliedChecksHold(sIn.subject, sIn.recipients, SearchPage[i]))
            => i \notin Skipped

\* part_000 returned, after skipping another candidate, one whose
\* receivedDateTime is not the requested string
C25_Witness ==
    /\ SearchedPage /\ sIn.rv = RevPart000
    /\ sOut.kind = "id" /\ sOut.examined > 1
    /\ TimestampDiffers(SearchPage[sOut.examined])
    /\ Truthy(sIn.subject)

----------------------------------------------------------------------------
\* the translate calls that threw, and the id each was asked to translate
FailedTranslations == {i \in CallIndexes({"translate"}) : calls[i].ret = Undefined}

(* C26: when the id to be fetched holds a '/' and its translation throws,
   the error is caught: the request does not end there, messageId keeps the
   untranslated id, the call that follows is the by-id fetch of that id, and
   when that fetch fails the response body's messageIdUsed is the untranslated
   id, under a status of 404 or 500. *)
C26_FallbackAfterFailedConversion ==
    \A i \in FailedTranslations :
        /\ includes(calls[i].id, "/")
        /\ messageId = calls[i].id
        /\ pc \in {"fetch", "attachments", "create", "attach", "send", "move", "done"}
        /\ (pc = "fetch" => i = Len(calls) /\ res = NoResponse)
        /\ (pc # "fetch" =>
               /\ Len(calls) > i
               /\ calls[i + 1].op = "fetch" /\ calls[i + 1].id = calls[i].id)
        /\ (pc # "fetch" /\ ~calls[i + 1].ok =>
               /\ pc = "done" /\ Len(calls) = i + 1
               /\ res.status \in {404, 500}
               /\ res.messageIdUsed = calls[i].id)

\* the translation of the request's id threw, the fetch of the untranslated
\* id failed too, and the 404 names the untranslated id
C26_Witness ==
    /\ LegacyRequest /\ FailedTranslations # {}
    /\ pc = "done" /\ Len(calls) = 2
    /\ calls[2].op = "fetch" /\ ~calls[2].ok
    /\ res.status = 404 /\ res.messageIdUsed = LegacyId

----------------------------------------------------------------------------
\* the handler entered the search with a recipients string and nothing else,
\* and the string's pieces are all empty once trimmed
OnlyEmptyRecipients ==
    /\ ~Truthy(req.subject) /\ ~Truthy(req.receivedTime)
    /\ Truthy(req.recipients)
    /\ fullRecipientListOf(req.recipients) = <<>>

(* C27: searchMessageByMetadata never calls the query service with an empty
   filter: a query call is made exactly when the filter has a term. When the
   subject and receivedTime are absent and the recipients string normalizes
   to an empty list, index.js returns null without a query, although the
   handler's guard took the non-empty string for a criterion. *)
C27_NoUnconstrainedQuery ==
    (rev \in SearchingRevisions /\ search # Idle) =>
        /\ search.queried <=> (search.filter # NoFilter)
        /\ (CallIndexes({"query"}) # {}) <=> search.queried
        /\ (rev = RevIndex /\ OnlyEmptyRecipients) =>
              /\ search.kind = "null" /\ ~search.queried
              /\ calls = <<>>

\* index.js: the guard let recipients ";" through and the function returned
\* null without a query
C27_Witness ==
    /\ rev = RevIndex /\ search # Idle /\ OnlyEmptyRecipients
    /\ req.recipients = RecipOnlySeparator
    /\ pc = "done" /\ res.status = 404 /\ calls = <<>>

----------------------------------------------------------------------------
\* the calls that change the mailbox
MutatingOps == {"create", "attach", "send", "move"}

\* the request ended before the pipeline: 401, 400, or a search that did not
\* produce an id (404 on null, 500 or 400 on a throw)
EndedInResolution ==
    /\ pc = "done"
    /\ \/ res.status \in {400, 401}
       \/ search # Idle /\ search.kind # "id"

(* C28: a request that ends in the resolution stage has made no mutating
   call (draft creation, attachment creation, send, move) and no by-id call
   at all; and in every request each draft-creation call comes after a
   successful by-id fetch of the original. *)
C28_NoMutationBeforeFetch ==
    /\ EndedInResolution =>
          /\ CallIndexes(MutatingOps \cup ByIdOps) = {}
          /\ res.status \in {400, 401, 404, 500}
    /\ \A j \in CallIndexes(MutatingOps) :
          \E i \in 1..(j - 1) : calls[i].op = "fetch" /\ calls[i].ok

\* a draft was created in a request whose id came from the search and was
\* fetched successfully
C28_Witness ==
    /\ rev \in {RevIndex, RevPart000}
    /\ search # Idle /\ search.kind = "id"
    /\ \E j \in CallIndexes({"create"}) :
          \E i \in 1..(j - 1) : calls[i].op = "fetch" /\ calls[i].ok

----------------------------------------------------------------------------
\* the ids the create calls of the request returned, and the ids its by-id
\* fetches addressed
CreatedDraftIds == {calls[i].ret : i \in {j \in CallIndexes({"create"}) : calls[j].ok}}
FetchedIds == {calls[i].id : i \in CallIndexes({"fetch"})}

(* C29: every attachment-creation call and the send call address the id the
   request's earlier create call returned; the move call addresses the id of
   the request's by-id fetch; the original's id is never the target of a send
   or an attachment creation, and a draft's id never the target of the move. *)
C29_CallTargets ==
    /\ \A i \in CallIndexes({"attach", "send"}) :
          /\ \E j \in 1..(i - 1) :
                calls[j].op = "create" /\ calls[j].ok /\ calls[j].ret = calls[i].id
          /\ calls[i].id \notin FetchedIds
    /\ \A i \in CallIndexes({"move"}) :
          /\ \E j \in 1..(i - 1) :
                calls[j].op = "fetch" /\ calls[j].ok /\ calls[j].id = calls[i].id
          /\ calls[i].id \notin CreatedDraftIds
    /\ Cardinality(CallIndexes({"create"})) <= 1
    /\ Cardinality(FetchedIds) <= 1

\* part_004: an attachment was added to the draft, the draft sent and the
\* original, found by the search, moved
C29_Witness ==
    /\ rev = RevPart004
    /\ CallIndexes({"attach"}) # {} /\ CallIndexes({"send"}) # {}
    /\ \E i \in CallIndexes({"move"}) : calls[i].id = search.id /\ calls[i].ok

----------------------------------------------------------------------------
\* the request is over and its response is not the 200
EndedWithoutSuccess == pc = "done" /\ res.status # 200

\* the last call of the request is the move of the original, and it failed
MoveFailedLast ==
    /\ calls # <<>>
    /\ calls[Len(calls)].op = "move" /\ ~calls[Len(calls)].ok

(* C30: a request that ends with a response other than 200 after its send
   call succeeded is one whose move of the original, issued right after the
   send, failed; in every other outcome that is not 200 the send call was
   never issued or did not succeed. *)
C30_SentButFailedOnlyOnMove ==
    EndedWithoutSuccess =>
        IF Succeeded("send")
        THEN /\ MoveFailedLast
             /\ Len(calls) >= 2
             /\ calls[Len(calls) - 1].op = "send"
             /\ res.status \in {404, 500}
        ELSE CallIndexes({"move"}) = {}

\* the duplicate was sent, the move of the original failed and the response
\* is the pipeline's error
C30_Witness ==
    /\ EndedWithoutSuccess /\ Succeeded("send") /\ MoveFailedLast
    /\ rev \in {RevIndex, RevPart000}
    /\ res.success = "false"


====
